---- MODULE Spec2Model ----
(***************************************************************************)
(* Transient file lifecycle of the document-tools API (src/main.py).       *)
(*                                                                         *)
(* The state is the two storage directories (uploads/, outputs/), the      *)
(* asyncio tasks created by cleanup_file, and one record per request.      *)
(* All handlers are coroutines on one event loop: code between two awaits  *)
(* runs as one step.  The only await of a handler is `await file.read()`,  *)
(* reached right after `open(temp_path, "wb")` has created the staged      *)
(* file, so every handler is a "call" step (up to the first await or an    *)
(* early rejection) followed by one "resume" step per file read.  The      *)
(* FileResponse is streamed by the framework after the handler returned.   *)
(***************************************************************************)
EXTENDS Integers, Sequences, FiniteSets, TLC

----------------------------------------------------------------------------
(* Bounds of the model *)

\* Concurrent requests.
MaxReqs == 2
\* Files of a multi-file upload (merge, images-to-pdf).
MaxFiles == 2
\* Distinct values of uuid4().hex[:8], and of uuid4().hex[:6], in the model.
Hex8Space == 2
Hex6Space == 2
\* Seconds that pass in one step of the clock.
TickStep == 300
\* Longest password.
MaxPwLen == 4
\* Pages of an uploaded document.
MaxPages == 2
\* Longest page-range string enumerated in full, and longest document, of
\* the page selection taken alone.
MaxStrLen == 3
MaxDocPages == 10

(* Program constants *)

\* cleanup_file(filepath, delay: int = 300)
Delay == 300
\* len(files) < 2
MinMergeFiles == 2
\* len(password) < 4
MinPwLen == 4

Reqs == 1..MaxReqs

\* rotate_pdf: angle not in [90, 180, 270, -90, -180, -270]
VALID_ANGLES == {90, 180, 270, -90, -180, -270}
\* Angles a client may send (angle: int = Form(default=90)).
Angles == {90, 0 - 270, 0, 360}

\* Lower-cased suffix of an uploaded file's name.
Exts == {"pdf", "png"}
\* images_to_pdf: valid_extensions (those of Exts that are images).
valid_extensions == {"jpg", "jpeg", "png", "gif", "bmp", "webp"}

\* file.filename.lower().endswith('.pdf')
IsPdf(ext) == ext = "pdf"

----------------------------------------------------------------------------
(* Names *)

\* uuid.uuid4(): the i-th identifier request r draws.  A uuid4 is taken to be
\* unique as a whole (122 random bits).
uuid4(r, i) == <<r, i>>

\* uuid.uuid4().hex[:8] and uuid.uuid4().hex[:6]: the truncation keeps the
\* first characters only, and those of two uuid4 may agree: a draw yields any
\* value of the truncated space.
Hex8 == 0..(Hex8Space - 1)
Hex6 == 0..(Hex6Space - 1)

\* UPLOAD_DIR / f"{uuid.uuid4()}_{file.filename}"
UploadPath(u, ext) == [uuid |-> u, name |-> ext]

\* OUTPUT_DIR / f"<prefix>_{uuid.uuid4().hex[:8]}.pdf"
OutputPath(prefix, hex8) == [pre |-> prefix, page |-> 0, tok |-> hex8]

\* OUTPUT_DIR / f"page_{page_num + 1}_{uuid.uuid4().hex[:6]}.pdf"
PagePath(page_num, hex6) == [pre |-> "page", page |-> page_num + 1, tok |-> hex6]

NoPath == [pre |-> "none", page |-> 0, tok |-> 0]

----------------------------------------------------------------------------
VARIABLES
  reqs,     \* per request: position, inputs, files it created, response
  uploads,  \* files present in UPLOAD_DIR
  outputs,  \* files present in OUTPUT_DIR
  tasks,    \* the delete_after_delay tasks created by cleanup_file
  parse     \* the page selection taken alone: its input and its result

vars == <<reqs, uploads, outputs, tasks, parse>>

\* A request that has not arrived yet.  pages is the form field as a sequence
\* of characters; total the page count of the uploaded document; locked says
\* that the document is encrypted and the password sent does not open it;
\* detail names what was raised; log lists, in order, what the handler did:
\* "codec" (a call into a document or image library), "persist" (the output
\* written), "register" (cleanup_file), "unlink" (the staged files removed).
Idle == [pc |-> "idle", ep |-> "none", exts |-> <<>>, angle |-> 90, pwlen |-> 0,
         pages |-> <<>>, total |-> 0, locked |-> FALSE,
         temp |-> <<>>, made |-> <<>>, nreg |-> 0, log |-> <<>>,
         status |-> 0, detail |-> "", path |-> NoPath, sent |-> "no"]

\* No page selection is under way.
NoParse == [pc |-> "none"]

\* The request record a handler starts from.
NewReq(ep, exts, angle, pwlen, pages) ==
  [Idle EXCEPT !.ep = ep, !.exts = exts, !.angle = angle, !.pwlen = pwlen,
               !.pages = pages]

Range(s) == { s[i] : i \in 1..Len(s) }

Init ==
  /\ reqs = [r \in Reqs |-> Idle]
  /\ uploads = {}
  /\ outputs = {}
  /\ tasks = {}
  /\ parse = NoParse

----------------------------------------------------------------------------
(* Retention: cleanup_file and its task *)

\* Faulty variant: the coroutine is built and never handed to the event loop.
cleanup_file_nocreate(ts, r, k, filepath) == ts

\* Faulty variant: the handler awaits delete_after_delay() itself instead of creating
\* a task: when it goes on, the delay is over and the deletion has run.
cleanup_file_awaited(ts, r, k, filepath) ==
  ts \cup {[req |-> r, k |-> k, path |-> filepath, left |-> 0, st |-> "unlinked"]}

\* cleanup_file(filepath, delay=300): asyncio.create_task(delete_after_delay()).
\* The task is created asleep with the whole delay ahead; the caller goes on.
cleanup_file(ts, r, k, filepath) ==
  ts \cup {[req |-> r, k |-> k, path |-> filepath, left |-> Delay, st |-> "sleeping"]}

\* raise HTTPException(status_code=code, detail=...): the handler ends, nothing
\* is streamed.
Raise(q, code, detail) == [q EXCEPT !.pc = "done", !.status = code, !.detail = detail]

\* The handler ran one more statement of the kind ev.
Did(q, ev) == [q EXCEPT !.log = Append(@, ev)]

\* return FileResponse(path=...): the handler ends, the framework streams the file.
ReturnFile(q, p) == [q EXCEPT !.pc = "streaming", !.status = 200, !.path = p,
                              !.sent = "pending"]

\* return JSONResponse(...)
ReturnJson(q) == [q EXCEPT !.pc = "done", !.status = 200]


\* An exception in flight: an HTTPException with its status code, or any
\* other; detail names what raised it.
HTTPException(code, detail) == [http |-> TRUE, code |-> code, detail |-> detail]
Error(detail) == [http |-> FALSE, code |-> 0, detail |-> detail]

\* except Exception as e: raise HTTPException(status_code=500, detail=str(e))
\* (HTTPException is an Exception: one raised inside the try is caught too.)
Except(q, exc) == Raise(q, 500, exc.detail)

\* Faulty variant: unlock_pdf without its `except HTTPException: raise`.
ExceptUnlock_caught(q, exc) == Raise(q, 500, exc.detail)

\* unlock_pdf: except HTTPException: raise, then except Exception: 500.
ExceptUnlock(q, exc) ==
  IF exc.http THEN Raise(q, exc.code, exc.detail) ELSE Raise(q, 500, exc.detail)

\* The except clauses of the handler of endpoint ep.
Catch(ep, q, exc) == IF ep = "unlock" THEN ExceptUnlock(q, exc) ELSE Except(q, exc)

\* open(temp_path, "wb") has created the staged file; the handler is suspended
\* in `await file.read()`.
Stage(q, temp_path) == [q EXCEPT !.pc = "reading", !.temp = Append(@, temp_path)]

\* What can go wrong in a resumed handler: nothing; a library call raising
\* (corrupt input, a write to the staged file failing) before the output is
\* opened; the write of the output raising after open() created the file;
\* temp_path.unlink() raising.
Faults == {"none", "codec", "write", "unlink"}

\* A resumed handler has read its form fields and its document when it ends:
\* they leave the record with its other locals.
Forget(q) == [q EXCEPT !.angle = 90, !.pwlen = 0, !.pages = <<>>, !.total = 0,
                       !.locked = FALSE]

----------------------------------------------------------------------------
(* Page-range strings.  A string is the sequence of its characters. *)

Min(a, b) == IF a < b THEN a ELSE b

DIGITS == <<"0", "1", "2", "3", "4", "5", "6", "7", "8", "9">>
IsDigit(c) == \E d \in 1..Len(DIGITS) : DIGITS[d] = c
DigitVal(c) == (CHOOSE d \in 1..Len(DIGITS) : DIGITS[d] = c) - 1

\* int(s) raises ValueError unless s is a nonempty run of digits (the strings
\* of the model hold no sign, blank or underscore).
IntOk(s) == s # <<>> /\ \A i \in 1..Len(s) : IsDigit(s[i])

RECURSIVE int(_)
int(s) ==
  IF s = <<>> THEN 0
  ELSE 10 * int(SubSeq(s, 1, Len(s) - 1)) + DigitVal(s[Len(s)])

\* s.split(sep): the fields between the separators; "".split(',') is [''].
RECURSIVE split(_, _)
split(s, sep) ==
  IF \A i \in 1..Len(s) : s[i] # sep THEN <<s>>
  ELSE LET k == CHOOSE i \in 1..Len(s) :
                  s[i] = sep /\ \A j \in 1..(i - 1) : s[j] # sep
       IN  <<SubSeq(s, 1, k - 1)>> \o split(SubSeq(s, k + 1, Len(s)), sep)

\* s.lower(), on the letters of the model.
lower(s) ==
  [i \in 1..Len(s) |-> CASE s[i] = "A" -> "a" [] s[i] = "L" -> "l" [] OTHER -> s[i]]

\* Whether a part parses: start, end = map(int, part.split('-')) when '-' is
\* in part, int(part) otherwise.
PartOk(part) ==
  IF "-" \in Range(part)
  THEN LET f == split(part, "-") IN Len(f) = 2 /\ IntOk(f[1]) /\ IntOk(f[2])
  ELSE IntOk(part)

\* range(start - 1, min(end, total_pages)), or [int(part) - 1].
PartPages(part, total_pages) ==
  IF "-" \in Range(part)
  THEN LET f == split(part, "-")
           lo == int(f[1]) - 1
           hi == Min(int(f[2]), total_pages)
       IN  [i \in 1..(IF hi > lo THEN hi - lo ELSE 0) |-> lo + i - 1]
  ELSE << int(part) - 1 >>

RECURSIVE ParseParts(_, _)
ParseParts(parts, total_pages) ==
  IF parts = <<>> THEN <<>>
  ELSE PartPages(Head(parts), total_pages) \o ParseParts(Tail(parts), total_pages)

\* Whether the loop over pages.split(',') raises ValueError.
ParseRaises(pages) ==
  \E i \in 1..Len(split(pages, ",")) : ~PartOk(split(pages, ",")[i])

\* Faulty variant: the upper end of a range is not held to the document.
SplitPageNums_unclamped(pages, total_pages) ==
  IF pages # <<>>
  THEN ParseParts(split(pages, ","), total_pages + 100)
  ELSE [i \in 1..total_pages |-> i - 1]

\* split_pdf: page_nums (a list, in the order given); `if pages:` is false
\* for the empty string.
SplitPageNums(pages, total_pages) ==
  IF pages # <<>>
  THEN ParseParts(split(pages, ","), total_pages)
  ELSE [i \in 1..total_pages |-> i - 1]

SplitRaises(pages) == pages # <<>> /\ ParseRaises(pages)

\* rotate_pdf: pages_to_rotate (a set); pages.lower() == "all".
RotatePages(pages, total_pages) ==
  IF lower(pages) = <<"a", "l", "l">>
  THEN 0..(total_pages - 1)
  ELSE Range(ParseParts(split(pages, ","), total_pages))

RotateRaises(pages) == lower(pages) # <<"a", "l", "l">> /\ ParseRaises(pages)

\* Faulty variant: every page number parsed is acted on.
SplitActs_unchecked(pages, total_pages) == SplitPageNums(pages, total_pages)

\* split_pdf: the page numbers its loop writes a file for, in order
\* (if 0 <= page_num < total_pages).
SplitActs(pages, total_pages) ==
  LET InDoc(page_num) == 0 <= page_num /\ page_num < total_pages
  IN  SelectSeq(SplitPageNums(pages, total_pages), InDoc)

\* rotate_pdf: the pages its loop rotates (for i, page in
\* enumerate(reader.pages): if i in pages_to_rotate).
RotateActs(pages, total_pages) ==
  { i \in 0..(total_pages - 1) : i \in RotatePages(pages, total_pages) }

\* Page-range strings a client sends with a request.
PageExprs == { <<>>, <<"a", "l", "l">>, <<"1", "-", "2">>, <<"3">>,
               <<"3", ",", "1", ",", "1">> }

----------------------------------------------------------------------------
(* Steps shared by the handlers *)

\* A handler's checks before `try` failed: raise HTTPException(400), outside
\* the try, with nothing staged.  The checks read the file names, the angle
\* and the password: the page range and the document were not looked at.
Reject(r, q, detail) ==
  /\ reqs' = [reqs EXCEPT ![r] =
                Raise([q EXCEPT !.pages = <<>>, !.total = 0, !.locked = FALSE], 400, detail)]
  /\ UNCHANGED <<uploads, outputs, tasks, parse>>

\* temp_path = UPLOAD_DIR / f"{uuid.uuid4()}_{file.filename}"; open(temp_path,
\* "wb"); await file.read(): file number i of the request is staged.
StageFile(r, q, i) ==
  LET temp_path == UploadPath(uuid4(r, i), q.exts[i]) IN
    /\ reqs' = [reqs EXCEPT ![r] = Stage(q, temp_path)]
    /\ uploads' = uploads \cup {temp_path}
    /\ UNCHANGED <<outputs, tasks, parse>>

\* An exception inside the try of a handler: nothing of the success path runs.
Fail(r, failed) ==
  /\ reqs' = [reqs EXCEPT ![r] = failed]
  /\ UNCHANGED <<uploads, outputs, tasks, parse>>

\* The output file was created by open(output_path, "wb") and the write raised.
FailWrite(r, failed, output_path) ==
  /\ reqs' = [reqs EXCEPT ![r] = [failed EXCEPT !.made = Append(@, output_path)]]
  /\ outputs' = outputs \cup {output_path}
  /\ UNCHANGED <<uploads, tasks, parse>>

\* Faulty variant: cleanup_file(output_path) comes before temp_path.unlink().
AfterWrite_registerfirst == <<"register", "unlink">>

\* The statements of a handler between the write of its output and its
\* return, in the order of the source: temp_path.unlink() (for every staged
\* file), then cleanup_file(output_path).
AfterWrite == <<"unlink", "register">>

\* The statements of steps that have run when `fault` strikes (all of them
\* when nothing does).
RECURSIVE Ran(_, _)
Ran(steps, fault) ==
  IF steps = <<>> \/ Head(steps) = fault THEN <<>>
  ELSE <<Head(steps)>> \o Ran(Tail(steps), fault)

\* A file-producing handler from the write of its output on: the output is
\* written, then the statements of AfterWrite run in order, up to the one
\* that raises; the FileResponse is returned when none does.
Finish(r, q, output_path, fault) ==
  LET ran == Range(Ran(AfterWrite, fault))
      written == [Did(q, "persist") EXCEPT !.made = Append(@, output_path)]
      after == [written EXCEPT !.log = @ \o Ran(AfterWrite, fault),
                               !.nreg = IF "register" \in ran THEN @ + 1 ELSE @]
  IN
  /\ outputs' = outputs \cup {output_path}
  /\ uploads' = IF "unlink" \in ran THEN uploads \ Range(q.temp) ELSE uploads
  /\ tasks' = IF "register" \in ran
              THEN cleanup_file(tasks, r, q.nreg + 1, output_path) ELSE tasks
  /\ reqs' = [reqs EXCEPT ![r] = IF fault = "none" THEN ReturnFile(after, output_path)
                                 ELSE Catch(q.ep, after, Error(fault))]
  /\ UNCHANGED parse

\* A single-file handler resumed after `await file.read()`: read the staged
\* file, transform, write outputs/<prefix>_<hex8>.pdf, unlink, register, return.
Resume(r, prefix, fault) ==
  LET q == Did(Forget(reqs[r]), "codec") IN
  \E hex8 \in Hex8 :
    CASE fault = "codec" -> Fail(r, Catch(q.ep, q, Error("codec")))
      [] fault = "write" -> FailWrite(r, Catch(q.ep, q, Error("write")), OutputPath(prefix, hex8))
      [] OTHER -> Finish(r, q, OutputPath(prefix, hex8), fault)

\* Faulty variant: the JSON is returned without temp_path.unlink().
ResumeJson_nounlink(r, fault) ==
  LET q == Did(reqs[r], "codec") IN
  CASE fault = "none" -> Fail(r, ReturnJson(q))
    [] OTHER -> Fail(r, Except(q, Error(fault)))

\* A JSON handler resumed: read the staged file, unlink it, return the JSON.
ResumeJson(r, fault) ==
  LET q == Did(reqs[r], "codec") IN
  CASE fault = "none" ->
         /\ uploads' = uploads \ Range(q.temp)
         /\ reqs' = [reqs EXCEPT ![r] = ReturnJson(Did(q, "unlink"))]
         /\ UNCHANGED <<outputs, tasks, parse>>
    [] OTHER -> Fail(r, Except(q, Error(fault)))

At(r, ep) == reqs[r].pc = "reading" /\ reqs[r].ep = ep

----------------------------------------------------------------------------
(* The handlers: <name>(r) is the call up to the first await, <name>_resume(r)
   the rest *)

\* POST /api/compress
compress_pdf(r) ==
  /\ reqs[r].pc = "idle"
  /\ \E ext \in Exts :
       LET q == NewReq("compress", <<ext>>, 90, 0, <<>>) IN
       IF ~IsPdf(ext) THEN Reject(r, q, "type") ELSE StageFile(r, q, 1)

compress_pdf_resume(r) ==
  /\ At(r, "compress")
  /\ \E fault \in Faults : Resume(r, "compressed", fault)

\* Faulty variant: the angle is not checked.
rotate_checks_noangle(ext, angle) == IsPdf(ext)

\* POST /api/rotate: the checks before `try`.
rotate_checks(ext, angle) == IsPdf(ext) /\ angle \in VALID_ANGLES

rotate_pdf(r) ==
  /\ reqs[r].pc = "idle"
  /\ \E ext \in Exts, angle \in Angles, pages \in PageExprs :
       LET q == NewReq("rotate", <<ext>>, angle, 0, pages) IN
       IF ~rotate_checks(ext, angle)
       THEN Reject(r, q, IF ~IsPdf(ext) THEN "type" ELSE "angle")
       ELSE StageFile(r, q, 1)

rotate_pdf_resume(r) ==
  /\ At(r, "rotate")
  /\ LET q == reqs[r] IN
     \E fault \in Faults :
       IF fault # "codec" /\ RotateRaises(q.pages)
       THEN Fail(r, Except(Did(Forget(q), "codec"), Error("parse")))
       ELSE Resume(r, "rotated", fault)

\* POST /api/pdf-to-images
pdf_to_images(r) ==
  /\ reqs[r].pc = "idle"
  /\ \E ext \in Exts :
       LET q == NewReq("pdf_to_images", <<ext>>, 90, 0, <<>>) IN
       IF ~IsPdf(ext) THEN Reject(r, q, "type") ELSE StageFile(r, q, 1)

pdf_to_images_resume(r) ==
  /\ At(r, "pdf_to_images")
  /\ \E fault \in Faults : Resume(r, "image", fault)

\* Faulty variant: the length is compared with 3.
protect_checks_short(ext, pwlen) == IsPdf(ext) /\ ~(pwlen = 0 \/ pwlen < 3)

\* POST /api/protect: the checks before `try`.
protect_checks(ext, pwlen) == IsPdf(ext) /\ ~(pwlen = 0 \/ pwlen < MinPwLen)

protect_pdf(r) ==
  /\ reqs[r].pc = "idle"
  /\ \E ext \in Exts, pwlen \in 0..MaxPwLen :
       LET q == NewReq("protect", <<ext>>, 90, pwlen, <<>>) IN
       IF ~protect_checks(ext, pwlen)
       THEN Reject(r, q, IF ~IsPdf(ext) THEN "type" ELSE "password")
       ELSE StageFile(r, q, 1)

protect_pdf_resume(r) ==
  /\ At(r, "protect")
  /\ \E fault \in Faults : Resume(r, "protected", fault)

\* POST /api/unlock
unlock_pdf(r) ==
  /\ reqs[r].pc = "idle"
  /\ \E ext \in Exts, locked \in BOOLEAN :
       LET q == [NewReq("unlock", <<ext>>, 90, 0, <<>>) EXCEPT !.locked = locked] IN
       IF ~IsPdf(ext) THEN Reject(r, q, "type") ELSE StageFile(r, q, 1)

\* locked: PdfReader opens the document, reader.is_encrypted is true and
\* reader.decrypt(password) returns a false value.
unlock_pdf_resume(r) ==
  /\ At(r, "unlock")
  /\ LET q == reqs[r] IN
     IF q.locked
     THEN Fail(r, ExceptUnlock(Did(Forget(q), "codec"),
                               HTTPException(400, "wrong password")))
     ELSE \E fault \in Faults : Resume(r, "unlocked", fault)

\* POST /api/watermark
add_watermark(r) ==
  /\ reqs[r].pc = "idle"
  /\ \E ext \in Exts :
       LET q == NewReq("watermark", <<ext>>, 90, 0, <<>>) IN
       IF ~IsPdf(ext) THEN Reject(r, q, "type") ELSE StageFile(r, q, 1)

add_watermark_resume(r) ==
  /\ At(r, "watermark")
  /\ \E fault \in Faults : Resume(r, "watermarked", fault)

\* POST /api/add-page-numbers
add_page_numbers(r) ==
  /\ reqs[r].pc = "idle"
  /\ \E ext \in Exts :
       LET q == NewReq("add_page_numbers", <<ext>>, 90, 0, <<>>) IN
       IF ~IsPdf(ext) THEN Reject(r, q, "type") ELSE StageFile(r, q, 1)

add_page_numbers_resume(r) ==
  /\ At(r, "add_page_numbers")
  /\ \E fault \in Faults : Resume(r, "numbered", fault)

\* POST /api/extract-text
extract_text(r) ==
  /\ reqs[r].pc = "idle"
  /\ \E ext \in Exts :
       LET q == NewReq("extract_text", <<ext>>, 90, 0, <<>>) IN
       IF ~IsPdf(ext) THEN Reject(r, q, "type") ELSE StageFile(r, q, 1)

extract_text_resume(r) ==
  /\ At(r, "extract_text")
  /\ \E fault \in {"none", "codec", "unlink"} : ResumeJson(r, fault)

\* POST /api/get-metadata
get_metadata(r) ==
  /\ reqs[r].pc = "idle"
  /\ \E ext \in Exts :
       LET q == NewReq("get_metadata", <<ext>>, 90, 0, <<>>) IN
       IF ~IsPdf(ext) THEN Reject(r, q, "type") ELSE StageFile(r, q, 1)

get_metadata_resume(r) ==
  /\ At(r, "get_metadata")
  /\ \E fault \in {"none", "codec", "unlink"} : ResumeJson(r, fault)

\* Faulty variant: cleanup_file is called after the loop, for its first file only.
CleanupAll_firstonly(ts, r, k, paths) ==
  IF paths = <<>> THEN ts ELSE cleanup_file(ts, r, k + 1, Head(paths))

\* cleanup_file(output_path) for each of paths in turn; k tasks exist already.
RECURSIVE CleanupAll(_, _, _, _)
CleanupAll(ts, r, k, paths) ==
  IF paths = <<>> THEN ts
  ELSE CleanupAll(cleanup_file(ts, r, k + 1, Head(paths)), r, k + 1, Tail(paths))

\* POST /api/split
split_pdf(r) ==
  /\ reqs[r].pc = "idle"
  /\ \E ext \in Exts, pages \in PageExprs, total_pages \in 1..MaxPages :
       LET q == [NewReq("split", <<ext>>, 90, 0, pages) EXCEPT !.total = total_pages] IN
       IF ~IsPdf(ext) THEN Reject(r, q, "type") ELSE StageFile(r, q, 1)

\* k turns of the loop of split_pdf: the write of a page, then cleanup_file.
Turns(k) == [i \in 1..(2 * k) |-> IF i % 2 = 1 THEN "persist" ELSE "register"]

\* The loop writes and registers one file per page number in range; a write
\* that raises leaves the files before it registered and its own file
\* created.  The staged file is unlinked after the loop; the first file is
\* returned, or HTTPException(400) raised inside the try.
split_pdf_resume(r) ==
  /\ At(r, "split")
  /\ LET q == reqs[r]
         read == Did(Forget(q), "codec")
     IN
     \/ Fail(r, Except(read, Error("codec")))
     \/ \E fault \in Faults \ {"codec"} :
       IF SplitRaises(q.pages) THEN Fail(r, Except(read, Error("parse")))
       ELSE
         LET valid == SplitActs(q.pages, q.total)
             n == Len(valid)
         IN
         \E hex6 \in [1..n -> Hex6] :
           LET output_files == [j \in 1..n |-> PagePath(valid[j], hex6[j])]
               looped == [read EXCEPT !.log = @ \o Turns(n), !.made = output_files,
                                      !.nreg = n]
           IN
           CASE fault = "write" ->
                  \E j \in 1..n :
                    /\ outputs' = outputs \cup Range(SubSeq(output_files, 1, j))
                    /\ tasks' = CleanupAll(tasks, r, 0, SubSeq(output_files, 1, j - 1))
                    /\ reqs' = [reqs EXCEPT ![r] =
                                  Except([read EXCEPT !.log = @ \o Turns(j - 1),
                                                      !.made = SubSeq(output_files, 1, j),
                                                      !.nreg = j - 1],
                                         Error("write"))]
                    /\ UNCHANGED <<uploads, parse>>
             [] fault = "unlink" ->
                  /\ outputs' = outputs \cup Range(output_files)
                  /\ tasks' = CleanupAll(tasks, r, 0, output_files)
                  /\ reqs' = [reqs EXCEPT ![r] = Except(looped, Error("unlink"))]
                  /\ UNCHANGED <<uploads, parse>>
             [] OTHER ->
                  /\ outputs' = outputs \cup Range(output_files)
                  /\ tasks' = CleanupAll(tasks, r, 0, output_files)
                  /\ uploads' = uploads \ Range(q.temp)
                  /\ reqs' = [reqs EXCEPT ![r] =
                                IF n > 0
                                THEN ReturnFile(Did(looped, "unlink"), output_files[1])
                                ELSE Except(Did(looped, "unlink"),
                                            HTTPException(400, "no valid pages"))]
                  /\ UNCHANGED parse

\* One turn of the loop `for file in files` of merge_pdfs and images_to_pdf,
\* up to the await: the extension check (inside the try), then staging.
LoopFile(r, q, i, ext_ok) ==
  IF ~ext_ok THEN Fail(r, Except(q, HTTPException(400, "type"))) ELSE StageFile(r, q, i)

\* The handler resumed after reading file number Len(temp): the library call
\* on it (merger.append, Image.open), then the next file or, after the last,
\* the write of the output, the unlinks, cleanup_file and the response.
ResumeLoop(r, prefix, fault, next_ok) ==
  LET q == reqs[r]
      i == Len(q.temp)
  IN
  IF i < Len(q.exts)
  THEN IF fault = "codec" THEN Fail(r, Except(Did(q, "codec"), Error("codec")))
       ELSE LoopFile(r, Did(q, "codec"), i + 1, next_ok)
  ELSE Resume(r, prefix, fault)

\* Faulty variant: one file is enough.
merge_checks_one(n) == ~(n < 1)

\* POST /api/merge: the check before `try`.
merge_checks(n) == ~(n < MinMergeFiles)

merge_pdfs(r) ==
  /\ reqs[r].pc = "idle"
  /\ \E n \in 1..MaxFiles : \E exts \in [1..n -> Exts] :
       LET q == NewReq("merge", exts, 90, 0, <<>>) IN
       IF ~merge_checks(n) THEN Reject(r, q, "count") ELSE LoopFile(r, q, 1, IsPdf(exts[1]))

merge_pdfs_resume(r) ==
  /\ At(r, "merge")
  /\ LET q == reqs[r]
         i == Len(q.temp)
     IN \E fault \in Faults :
          ResumeLoop(r, "merged", fault, i < Len(q.exts) /\ IsPdf(q.exts[i + 1]))

\* POST /api/images-to-pdf: every check is inside the try.
images_to_pdf(r) ==
  /\ reqs[r].pc = "idle"
  /\ \E n \in 1..MaxFiles : \E exts \in [1..n -> Exts] :
       LoopFile(r, NewReq("images_to_pdf", exts, 90, 0, <<>>), 1,
                exts[1] \in valid_extensions)

images_to_pdf_resume(r) ==
  /\ At(r, "images_to_pdf")
  /\ LET q == reqs[r]
         i == Len(q.temp)
     IN \E fault \in Faults :
          ResumeLoop(r, "images_to_pdf", fault,
                     i < Len(q.exts) /\ q.exts[i + 1] \in valid_extensions)

----------------------------------------------------------------------------
(* The response, the clock and the deletion tasks *)

\* The framework finished sending the FileResponse.
Transmit(r) ==
  /\ reqs[r].pc = "streaming"
  /\ reqs' = [reqs EXCEPT ![r].pc = "done", ![r].sent = "complete"]
  /\ UNCHANGED <<uploads, outputs, tasks, parse>>

\* The caller disconnected while the FileResponse was being sent.
Disconnect(r) ==
  /\ reqs[r].pc = "streaming"
  /\ reqs' = [reqs EXCEPT ![r].pc = "done", ![r].sent = "aborted"]
  /\ UNCHANGED <<uploads, outputs, tasks, parse>>

\* await asyncio.sleep(delay): TickStep seconds pass for every sleeping task.
Tick ==
  /\ \E t \in tasks : t.st = "sleeping" /\ t.left > 0
  /\ tasks' = { IF t.st = "sleeping"
                THEN [t EXCEPT !.left = IF @ > TickStep THEN @ - TickStep ELSE 0]
                ELSE t : t \in tasks }
  /\ UNCHANGED <<reqs, uploads, outputs, parse>>

\* The task t ends with st.
EndTask(t, st) == tasks' = (tasks \ {t}) \cup {[t EXCEPT !.st = st]}

\* Faulty variant: unlink without the exists() check: a missing file raises.
delete_after_delay_nocheck(t) ==
  /\ t.st = "sleeping" /\ t.left = 0
  /\ \E unlinked \in BOOLEAN :
       IF unlinked /\ t.path \in outputs
       THEN outputs' = outputs \ {t.path} /\ EndTask(t, "unlinked")
       ELSE outputs' = outputs /\ EndTask(t, "raised")
  /\ UNCHANGED <<reqs, uploads, parse>>

\* Faulty variant: one worker deletes in the order of registration: a task
\* waits for every task registered before it.
delete_after_delay_serial(t) ==
  /\ t.st = "sleeping" /\ t.left = 0
  /\ \A u \in tasks :
       (u.st = "sleeping" /\ u # t) => (u.req > t.req \/ (u.req = t.req /\ u.k > t.k))
  /\ IF t.path \in outputs
     THEN \E unlinked \in BOOLEAN :
            IF unlinked
            THEN outputs' = outputs \ {t.path} /\ EndTask(t, "unlinked")
            ELSE outputs' = outputs /\ EndTask(t, "raised")
     ELSE outputs' = outputs /\ EndTask(t, "noop")
  /\ UNCHANGED <<reqs, uploads, parse>>

\* Faulty variant: when the unlink raises, the task sleeps for the delay again
\* and tries once more.
delete_after_delay_retry(t) ==
  /\ t.st = "sleeping" /\ t.left = 0
  /\ IF t.path \in outputs
     THEN \E unlinked \in BOOLEAN :
            IF unlinked
            THEN outputs' = outputs \ {t.path} /\ EndTask(t, "unlinked")
            ELSE /\ outputs' = outputs
                 /\ tasks' = (tasks \ {t}) \cup {[t EXCEPT !.left = Delay]}
     ELSE outputs' = outputs /\ EndTask(t, "noop")
  /\ UNCHANGED <<reqs, uploads, parse>>

\* delete_after_delay once its sleep is over: `if filepath.exists():
\* filepath.unlink()`, with no await in between.  The unlink removes the file
\* or raises (the task ends with the exception, the file stays).
delete_after_delay(t) ==
  /\ t.st = "sleeping" /\ t.left = 0
  /\ IF t.path \in outputs
     THEN \E unlinked \in BOOLEAN :
            IF unlinked
            THEN outputs' = outputs \ {t.path} /\ EndTask(t, "unlinked")
            ELSE outputs' = outputs /\ EndTask(t, "raised")
     ELSE outputs' = outputs /\ EndTask(t, "noop")
  /\ UNCHANGED <<reqs, uploads, parse>>

\* The deletion tasks of request r.
Expire(r) == \E t \in tasks : t.req = r /\ delete_after_delay(t)

----------------------------------------------------------------------------
Next ==
  \/ \E r \in Reqs :
       \/ merge_pdfs(r) \/ merge_pdfs_resume(r)
       \/ split_pdf(r) \/ split_pdf_resume(r)
       \/ compress_pdf(r) \/ compress_pdf_resume(r)
       \/ rotate_pdf(r) \/ rotate_pdf_resume(r)
       \/ pdf_to_images(r) \/ pdf_to_images_resume(r)
       \/ images_to_pdf(r) \/ images_to_pdf_resume(r)
       \/ protect_pdf(r) \/ protect_pdf_resume(r)
       \/ unlock_pdf(r) \/ unlock_pdf_resume(r)
       \/ add_watermark(r) \/ add_watermark_resume(r)
       \/ add_page_numbers(r) \/ add_page_numbers_resume(r)
       \/ extract_text(r) \/ extract_text_resume(r)
       \/ get_metadata(r) \/ get_metadata_resume(r)
       \/ Transmit(r) \/ Disconnect(r)
       \/ Expire(r)
  \/ Tick

Spec == Init /\ [][Next]_vars

\* The event loop runs a task whose sleep is over, and time passes.
FairSpec == Spec /\ WF_vars(Tick) /\ \A r \in Reqs : WF_vars(Expire(r))

----------------------------------------------------------------------------
(* The page selection of split_pdf and rotate_pdf taken alone: a page-range
   string and a page count go in, the selection of either handler comes out *)

\* Characters of the strings enumerated in full: digits, the two separators,
\* and a character int() rejects.
Alphabet == {"1", "3", "-", ",", "x"}

\* The strings of the specification's documentation and others of their kind.
Examples ==
  { <<"1", "-", "3", ",", "5", ",", "7", "-", "9">>, <<"8", "-", "2", "0">>,
    <<"a", "l", "l">>, <<"A", "L", "L">>, <<"1", "2", ",", "2", ",", "2">>,
    <<"0", "-", "2">>, <<"1", "-", "2", "-", "3">> }

PageStrings == UNION { [1..k -> Alphabet] : k \in 0..MaxStrLen } \cup Examples

ParseInit ==
  /\ reqs = [r \in Reqs |-> Idle]
  /\ uploads = {}
  /\ outputs = {}
  /\ tasks = {}
  /\ \E pages \in PageStrings, total_pages \in 1..MaxDocPages :
       parse = [pc |-> "input", pages |-> pages, total_pages |-> total_pages,
                raised |-> FALSE, nums |-> <<>>, acts |-> <<>>, novalid |-> FALSE]

\* split_pdf from `if pages:` to the end of its loop: raised says that the
\* parsing raised ValueError, nums is page_nums, acts the page numbers a file
\* is written for, novalid that output_files is empty after the loop.
ParseSplit ==
  /\ parse.pc = "input"
  /\ LET raised == SplitRaises(parse.pages)
         acts == IF raised THEN <<>> ELSE SplitActs(parse.pages, parse.total_pages)
     IN parse' = [parse EXCEPT
                    !.pc = "split", !.raised = raised,
                    !.nums = IF raised THEN <<>>
                             ELSE SplitPageNums(parse.pages, parse.total_pages),
                    !.acts = acts, !.novalid = ~raised /\ acts = <<>>]
  /\ UNCHANGED <<reqs, uploads, outputs, tasks>>

\* rotate_pdf from `if pages.lower() == "all":` to the end of its loop: nums is
\* pages_to_rotate and acts the pages rotated, both sets.
ParseRotate ==
  /\ parse.pc = "input"
  /\ LET raised == RotateRaises(parse.pages) IN
     parse' = [parse EXCEPT
                 !.pc = "rotate", !.raised = raised,
                 !.nums = IF raised THEN {}
                          ELSE RotatePages(parse.pages, parse.total_pages),
                 !.acts = IF raised THEN {}
                          ELSE RotateActs(parse.pages, parse.total_pages)]
  /\ UNCHANGED <<reqs, uploads, outputs, tasks>>

ParseNext == ParseSplit \/ ParseRotate

ParseSpec == ParseInit /\ [][ParseNext]_vars

----------------------------------------------------------------------------
(* Vocabulary of the properties *)

\* The handler of request r has finished: it returned or raised.
Finished(r) == reqs[r].pc \in {"streaming", "done"}

\* Task t, asleep in this state, ends in this step with st.
EndsAs(t, st) == t.st = "sleeping" /\ [t EXCEPT !.st = st] \in tasks'

\* The deletion task of the artifact request r returned has run.
ReturnedTaskRan(r) ==
  \E t \in tasks : t.req = r /\ t.path = reqs[r].path /\ t.st # "sleeping"

----------------------------------------------------------------------------
(* C1: when a handler has finished, on whatever path (return, rejection,
   codec failure, storage failure), none of the files it staged is left in
   uploads/. *)
C1_StagedRemovedAtFinish ==
  \A r \in Reqs : Finished(r) => Range(reqs[r].temp) \cap uploads = {}

(* C2, as stated: when the deletion task of a registered artifact runs after
   its delay, the artifact's path no longer exists. *)
C2_GoneOnceTaskRan ==
  [][\A t \in tasks : \A st \in {"unlinked", "noop", "raised"} :
       EndsAs(t, st) => t.path \notin outputs']_vars

(* C2, amended: the deletion task of every artifact returned to a caller
   eventually runs, downloaded or not, and when it has run the path no
   longer exists unless the unlink itself raised. *)
C2_TaskRunsAndDeletes ==
  /\ \A r \in Reqs : (reqs[r].status = 200 /\ reqs[r].path # NoPath) ~> ReturnedTaskRan(r)
  /\ [][\A t \in tasks : \A st \in {"unlinked", "noop"} :
          EndsAs(t, st) => t.path \notin outputs']_vars

\* The caller disconnected, and the artifact was deleted by its task all the same.
C2_Witness ==
  \E r \in Reqs : \E t \in tasks :
    /\ reqs[r].sent = "aborted" /\ t.req = r /\ t.path = reqs[r].path
    /\ t.st = "unlinked" /\ t.path \notin outputs

(* C3: while the response carrying an artifact is being streamed, the
   artifact's file exists. *)
C3_ExistsWhileStreaming ==
  \A r \in Reqs : reqs[r].pc = "streaming" => reqs[r].path \in outputs

(* C4: the file of a registered artifact whose own delay has not elapsed is
   removed by no step of a handler or of another artifact's task. *)
C4_NoRemovalBeforeExpiry ==
  [][\A t \in tasks :
       (t.st = "sleeping" /\ t.left > 0 /\ t.path \in outputs) => t.path \in outputs']_vars

(* C5: staged files of different requests have distinct paths, and so have
   any two generated artifacts that are live (registered, not yet expired)
   at the same time. *)
C5_DistinctPaths ==
  /\ \A r1, r2 \in Reqs : r1 # r2 => Range(reqs[r1].temp) \cap Range(reqs[r2].temp) = {}
  /\ \A t1, t2 \in tasks :
       (t1 # t2 /\ t1.st = "sleeping" /\ t2.st = "sleeping") => t1.path # t2.path

(* C6: a deletion task that runs when its file is already gone does nothing
   and raises nothing, and a task unlinks only a file that exists: no file is
   removed twice. *)
C6_GoneIsNoop ==
  [][\A t \in tasks :
       /\ (t.path \notin outputs /\ \E st \in {"unlinked", "noop", "raised"} : EndsAs(t, st))
            => (EndsAs(t, "noop") /\ outputs' = outputs)
       /\ EndsAs(t, "unlinked") => (t.path \in outputs /\ outputs' = outputs \ {t.path})]_vars

\* Two tasks raced for one path: one unlinked it, the other found it gone.
C6_Witness ==
  \E t1, t2 \in tasks :
    t1.path = t2.path /\ t1.st = "unlinked" /\ t2.st = "noop"

(* C7: the step in which a handler returns its file response is the step
   that registered the artifact: the deletion task is asleep with the whole
   delay ahead. *)
C7_ReturnsAtRegistration ==
  [][\A r \in Reqs :
       (reqs[r].pc # "streaming" /\ reqs'[r].pc = "streaming")
         => \E t \in tasks' : /\ t.req = r /\ t.path = reqs'[r].path
                              /\ t.st = "sleeping" /\ t.left = Delay]_vars

\* A response has been sent in full while its deletion task has all its delay ahead.
C7_Witness ==
  \E r \in Reqs : \E t \in tasks :
    /\ reqs[r].sent = "complete" /\ t.req = r /\ t.path = reqs[r].path
    /\ t.st = "sleeping" /\ t.left = Delay

(* C8: a rotate request whose angle is not one of 90, 180, 270, -90, -180,
   -270 is rejected with status 400 in the call step, which writes no file
   to uploads/ or outputs/; a rotate request that gets staged has one of
   these angles. *)
C8_RotateAngleChecked ==
  [][\A r \in Reqs :
       (reqs[r].pc = "idle" /\ reqs'[r].ep = "rotate"
          /\ reqs'[r].angle \notin {90, 180, 270, -90, -180, -270})
         => /\ reqs'[r].pc = "done" /\ reqs'[r].status = 400
            /\ reqs'[r].temp = <<>> /\ reqs'[r].made = <<>>
            /\ uploads' = uploads /\ outputs' = outputs /\ tasks' = tasks]_vars

\* A PDF was sent to rotate with a bad angle and rejected.
C8_Witness ==
  \E r \in Reqs :
    /\ reqs[r].ep = "rotate" /\ reqs[r].exts = <<"pdf">> /\ reqs[r].angle = 360
    /\ reqs[r].status = 400 /\ reqs[r].temp = <<>>

(* C9: a protect request whose password is empty or shorter than 4
   characters is rejected with status 400 in the call step, which leaves
   uploads/ and outputs/ unchanged. *)
C9_ProtectPasswordChecked ==
  [][\A r \in Reqs :
       (reqs[r].pc = "idle" /\ reqs'[r].ep = "protect" /\ reqs'[r].pwlen < 4)
         => /\ reqs'[r].pc = "done" /\ reqs'[r].status = 400
            /\ reqs'[r].temp = <<>> /\ reqs'[r].made = <<>>
            /\ uploads' = uploads /\ outputs' = outputs /\ tasks' = tasks]_vars

\* A PDF was sent to protect with a 3-character password and rejected.
C9_Witness ==
  \E r \in Reqs :
    /\ reqs[r].ep = "protect" /\ reqs[r].exts = <<"pdf">> /\ reqs[r].pwlen = 3
    /\ reqs[r].status = 400 /\ reqs[r].temp = <<>>

(* C10: a merge request with fewer than 2 files is rejected with status 400
   in the call step, which writes no file to uploads/ or outputs/. *)
C10_MergeNeedsTwoFiles ==
  [][\A r \in Reqs :
       (reqs[r].pc = "idle" /\ reqs'[r].ep = "merge" /\ Len(reqs'[r].exts) < 2)
         => /\ reqs'[r].pc = "done" /\ reqs'[r].status = 400
            /\ reqs'[r].temp = <<>> /\ reqs'[r].made = <<>>
            /\ uploads' = uploads /\ outputs' = outputs /\ tasks' = tasks]_vars

\* One PDF was sent to merge and rejected.
C10_Witness ==
  \E r \in Reqs :
    /\ reqs[r].ep = "merge" /\ reqs[r].exts = <<"pdf">>
    /\ reqs[r].status = 400 /\ reqs[r].temp = <<>>

\* A client error: a 4xx status.
ClientError(status) == status \in 400..499

(* C11: the step that resumes an unlock request whose document is encrypted
   and whose password does not open it ends the request with a 4xx status,
   creates no file in outputs/ and registers no deletion task. *)
C11_WrongPasswordRejected ==
  [][\A r \in Reqs :
       (reqs[r].pc = "reading" /\ reqs[r].ep = "unlock" /\ reqs[r].locked
          /\ reqs'[r] # reqs[r])
         => /\ reqs'[r].pc = "done" /\ ClientError(reqs'[r].status)
            /\ reqs'[r].made = <<>> /\ reqs'[r].nreg = 0
            /\ "persist" \notin Range(reqs'[r].log)
            /\ outputs' = outputs /\ tasks' = tasks]_vars

\* An unlock request was staged and refused for its password.
C11_Witness ==
  \E r \in Reqs :
    /\ reqs[r].ep = "unlock" /\ reqs[r].pc = "done" /\ reqs[r].temp # <<>>
    /\ reqs[r].detail = "wrong password" /\ reqs[r].status = 400

----------------------------------------------------------------------------
(* Properties of the page selection (ParseSpec) *)

\* The page selection has run, in one of the two handlers.
Parsed == parse.pc \in {"split", "rotate"}

\* The zero-based indices the parsing yielded, as a set.
Selected == IF parse.pc = "split" THEN Range(parse.nums) ELSE parse.nums

\* The pages of the document, zero-based.
DocPages == 0..(parse.total_pages - 1)

(* C12, as stated, its last part: in split and in rotate, an empty range
   string selects all pages. *)
C12_EmptySelectsAll ==
  (Parsed /\ parse.pages = <<>>) => (~parse.raised /\ Selected = DocPages)

(* C12, amended: in split and in rotate, "1-3,5,7-9" on 10 pages yields the
   indices 0,1,2,4,6,7,8 and "8-20" on 10 pages the indices 7,8,9; a string
   that is one range yields no index past the last page; the empty string
   selects all pages in split; in rotate "all", in any letter case, selects
   all pages and the empty string raises. *)
C12_PageRangeParsing ==
  /\ (Parsed /\ parse.total_pages = 10
        /\ parse.pages = <<"1", "-", "3", ",", "5", ",", "7", "-", "9">>)
       => (~parse.raised /\ Selected = {0, 1, 2, 4, 6, 7, 8})
  /\ (parse.pc = "split" /\ parse.total_pages = 10
        /\ parse.pages = <<"1", "-", "3", ",", "5", ",", "7", "-", "9">>)
       => parse.nums = <<0, 1, 2, 4, 6, 7, 8>>
  /\ (Parsed /\ parse.total_pages = 10 /\ parse.pages = <<"8", "-", "2", "0">>)
       => (~parse.raised /\ Selected = {7, 8, 9})
  /\ (Parsed /\ ~parse.raised /\ "-" \in Range(parse.pages)
        /\ "," \notin Range(parse.pages))
       => \A n \in Selected : n < parse.total_pages
  /\ (parse.pc = "split" /\ parse.pages = <<>>)
       => (~parse.raised /\ parse.nums = [i \in 1..parse.total_pages |-> i - 1])
  /\ (parse.pc = "rotate" /\ parse.pages \in {<<"a", "l", "l">>, <<"A", "L", "L">>})
       => (~parse.raised /\ Selected = DocPages)
  /\ (parse.pc = "rotate" /\ parse.pages = <<>>) => parse.raised

\* split parsed "8-20" on 10 pages and held the range to the last page.
C12_Witness ==
  /\ parse.pc = "split" /\ parse.total_pages = 10
  /\ parse.pages = <<"8", "-", "2", "0">> /\ parse.nums = <<7, 8, 9>>

----------------------------------------------------------------------------
(* C13: a request that ended because one of its files has an unsupported
   type ended with a 4xx status, whatever the endpoint and the position of
   the file. *)
C13_BadTypeIsClientError ==
  \A r \in Reqs :
    (Finished(r) /\ reqs[r].detail = "type") => ClientError(reqs[r].status)

(* C14: a split or rotate request that ended because its page range does not
   parse, and a split request that ended because no page of its range is in
   the document, ended with a 4xx status. *)
C14_BadRangeIsClientError ==
  \A r \in Reqs :
    (Finished(r) /\ reqs[r].detail \in {"parse", "no valid pages"})
      => ClientError(reqs[r].status)

(* C15: a request that ended on a validation failure (file type, file count,
   angle, password length, page-range syntax) made no library call before:
   its log holds no "codec". *)
C15_ValidationBeforeCodec ==
  \A r \in Reqs :
    (Finished(r) /\ reqs[r].detail \in {"type", "count", "angle", "password", "parse"})
      => "codec" \notin Range(reqs[r].log)

(* C16: when a handler has finished, on whatever path, every file it created
   in outputs/ has a deletion task. *)
C16_CreatedIsRegistered ==
  \A r \in Reqs :
    Finished(r) =>
      \A i \in 1..Len(reqs[r].made) :
        \E t \in tasks : t.req = r /\ t.path = reqs[r].made[i]

\* Positions of the statements of kind ev in the log of request r.
At_(r, ev) == { i \in 1..Len(reqs[r].log) : reqs[r].log[i] = ev }

(* C17, as stated: in every handler, every registration of an artifact comes
   before the removal of the staged input. *)
C17_RegisterBeforeUnlink ==
  \A r \in Reqs : \A g \in At_(r, "register") : \A u \in At_(r, "unlink") : g < u

(* C17, amended: a handler that returned a file wrote it first, removed its
   staged input once and registered every file it wrote, all in the step
   that returned (the tasks exist and the staged files are gone when the
   response starts); split registers each page right after writing it and
   removes the staged input last, every other handler removes the staged
   input first and registers its output after. *)
C17_StepOrder ==
  \A r \in Reqs :
    (reqs[r].status = 200 /\ reqs[r].path # NoPath) =>
      /\ Cardinality(At_(r, "unlink")) = 1
      /\ Cardinality(At_(r, "persist")) = Len(reqs[r].made)
      /\ Cardinality(At_(r, "register")) = Len(reqs[r].made)
      /\ \A g \in At_(r, "register") : \A u \in At_(r, "unlink") :
           /\ \E w \in At_(r, "persist") : w < g /\ w < u
           /\ IF reqs[r].ep = "split"
              THEN g < u /\ reqs[r].log[g - 1] = "persist"
              ELSE u < g
      /\ \A i \in 1..Len(reqs[r].made) :
           \E t \in tasks : t.req = r /\ t.path = reqs[r].made[i]
      /\ Range(reqs[r].temp) \cap uploads = {}

\* A compress request returned its file: written, staged input removed, registered.
C17_Witness ==
  \E r \in Reqs :
    /\ reqs[r].ep = "compress" /\ reqs[r].pc = "streaming"
    /\ reqs[r].log = <<"codec", "persist", "unlink", "register">>

----------------------------------------------------------------------------
(* C18, as stated, its last part: in split and in rotate, dropping the
   indices outside the document never makes the request fail. *)
C18_DroppedNeverFails ==
  (Parsed /\ ~parse.raised) => ~parse.novalid

(* C18, amended: for every string that parses and every page count, split
   and rotate act on exactly the parsed indices i with 0 <= i < page count
   and on no other; the request does not fail for the indices dropped,
   except that split fails when no parsed index is in the document. *)
C18_OnlyInRangeActedOn ==
  (Parsed /\ ~parse.raised) =>
    LET acted == IF parse.pc = "split" THEN Range(parse.acts) ELSE parse.acts IN
    /\ acted \subseteq DocPages
    /\ acted = Selected \cap DocPages
    /\ parse.novalid <=> (parse.pc = "split" /\ Selected \cap DocPages = {})

\* split dropped an index outside the document and wrote the others.
C18_Witness ==
  /\ parse.pc = "split" /\ ~parse.raised /\ ~parse.novalid
  /\ Range(parse.acts) # Range(parse.nums)

----------------------------------------------------------------------------
\* The positions of page_nums, for range string and page count, whose page
\* number is in the document.
InRange(pages, total_pages) ==
  LET nums == SplitPageNums(pages, total_pages) IN
  { i \in 1..Len(nums) : 0 <= nums[i] /\ nums[i] < total_pages }

\* The j-th of a set of positions.
Nth(I, j) == CHOOSE i \in I : Cardinality({ i2 \in I : i2 <= i }) = j

(* C19: the step in which split returns a file has written one file per
   in-range position of the parsed list, duplicates included, in the order of
   the list, has registered a deletion task for each, and returns the file
   of the first in-range position. *)
C19_SplitReturnsFirst ==
  [][\A r \in Reqs :
       (reqs[r].pc = "reading" /\ reqs[r].ep = "split" /\ reqs'[r].status = 200)
         => LET nums == SplitPageNums(reqs[r].pages, reqs[r].total)
                I == InRange(reqs[r].pages, reqs[r].total)
                made == reqs'[r].made
            IN
            /\ I # {} /\ Len(made) = Cardinality(I)
            /\ \A j \in 1..Len(made) :
                 /\ made[j].pre = "page" /\ made[j].page = nums[Nth(I, j)] + 1
                 /\ made[j] \in outputs'
                 /\ \E t \in tasks' \ tasks :
                      t.req = r /\ t.k = j /\ t.path = made[j] /\ t.st = "sleeping"
            /\ reqs'[r].path = made[1]
            /\ reqs'[r].path.page = nums[Nth(I, 1)] + 1]_vars

\* split returned the first of two files it wrote for the same page.
C19_Witness ==
  \E r \in Reqs :
    /\ reqs[r].ep = "split" /\ reqs[r].status = 200 /\ Len(reqs[r].made) = 2
    /\ reqs[r].made[1].page = reqs[r].made[2].page
    /\ reqs[r].made[1] # reqs[r].made[2] /\ reqs[r].path = reqs[r].made[1]
    /\ \A j \in 1..2 : \E t \in tasks : t.req = r /\ t.k = j /\ t.path = reqs[r].made[j]

----------------------------------------------------------------------------
(* C20: a deletion task whose delay is over can run whatever the state of
   the other tasks and of the requests, and a request can take its next step
   (be accepted, be resumed, have its response sent) whatever the state of
   the tasks. *)
C20_DeletionsIndependent ==
  /\ \A t \in tasks : (t.st = "sleeping" /\ t.left = 0) => ENABLED delete_after_delay(t)
  /\ \A r \in Reqs :
       /\ reqs[r].pc = "idle" =>
            /\ ENABLED merge_pdfs(r) /\ ENABLED split_pdf(r)
            /\ ENABLED compress_pdf(r) /\ ENABLED rotate_pdf(r)
            /\ ENABLED pdf_to_images(r) /\ ENABLED images_to_pdf(r)
            /\ ENABLED protect_pdf(r) /\ ENABLED unlock_pdf(r)
            /\ ENABLED add_watermark(r) /\ ENABLED add_page_numbers(r)
            /\ ENABLED extract_text(r) /\ ENABLED get_metadata(r)
       /\ At(r, "merge") => ENABLED merge_pdfs_resume(r)
       /\ At(r, "split") => ENABLED split_pdf_resume(r)
       /\ At(r, "compress") => ENABLED compress_pdf_resume(r)
       /\ At(r, "rotate") => ENABLED rotate_pdf_resume(r)
       /\ At(r, "pdf_to_images") => ENABLED pdf_to_images_resume(r)
       /\ At(r, "images_to_pdf") => ENABLED images_to_pdf_resume(r)
       /\ At(r, "protect") => ENABLED protect_pdf_resume(r)
       /\ At(r, "unlock") => ENABLED unlock_pdf_resume(r)
       /\ At(r, "watermark") => ENABLED add_watermark_resume(r)
       /\ At(r, "add_page_numbers") => ENABLED add_page_numbers_resume(r)
       /\ At(r, "extract_text") => ENABLED extract_text_resume(r)
       /\ At(r, "get_metadata") => ENABLED get_metadata_resume(r)
       /\ reqs[r].pc = "streaming" => ENABLED Transmit(r)

\* A request was accepted and answered in full while the deletion of another
\* request's artifact was due and had not run; its own is still asleep.
C20_Witness ==
  \E t1, t2 \in tasks :
    /\ t1.req # t2.req
    /\ t1.st = "sleeping" /\ t1.left = 0
    /\ t2.st = "sleeping" /\ t2.left = Delay
    /\ reqs[t2.req].sent = "complete"

----------------------------------------------------------------------------
(* C21: a deletion task makes one attempt: a step that changes a task whose
   delay is over ends that task (no rescheduling), a task that has ended
   never changes again, and the step in which a task ends, the unlink
   raising included, changes no request, no staged file and no other task;
   when the unlink raised, outputs/ is unchanged as well. *)
C21_DeletionAttemptedOnce ==
  [][\A t \in tasks :
       /\ t.st # "sleeping" => t \in tasks'
       /\ (t.st = "sleeping" /\ t.left = 0 /\ t \notin tasks')
            => \E st \in {"unlinked", "noop", "raised"} : EndsAs(t, st)
       /\ \A st \in {"unlinked", "noop", "raised"} :
            EndsAs(t, st) =>
              /\ reqs' = reqs /\ uploads' = uploads
              /\ tasks' = (tasks \ {t}) \cup {[t EXCEPT !.st = st]}
              /\ outputs' \in {outputs, outputs \ {t.path}}
              /\ st = "raised" => outputs' = outputs]_vars

\* The unlink of a task raised after the response had been sent in full: the
\* file is still there and no task is left to remove it.
C21_Witness ==
  \E t \in tasks :
    /\ t.st = "raised" /\ t.path \in outputs
    /\ reqs[t.req].sent = "complete" /\ reqs[t.req].status = 200
    /\ \A u \in tasks : u.path = t.path => u.st # "sleeping"

----------------------------------------------------------------------------
\* The endpoints that answer with JSON.
JsonEndpoints == {"extract_text", "get_metadata"}

(* C22: the step in which a handler returns a 2xx response leaves none of
   the files the request staged in uploads/, and the request staged every
   file it was sent; no step of an extract-text or get-metadata request
   changes outputs/ or the deletion tasks, and such a request creates no
   file and returns no path. *)
C22_StagedGoneOnSuccess ==
  [][\A r \in Reqs :
       /\ (reqs[r].status # 200 /\ reqs'[r].status = 200)
            => /\ Len(reqs'[r].temp) = Len(reqs'[r].exts)
               /\ Range(reqs'[r].temp) \cap uploads' = {}
               /\ Range(reqs'[r].temp) \subseteq uploads
       /\ (reqs'[r] # reqs[r] /\ reqs'[r].ep \in JsonEndpoints)
            => /\ outputs' = outputs /\ tasks' = tasks
               /\ reqs'[r].made = <<>> /\ reqs'[r].path = NoPath]_vars

\* A merge of two files and a JSON request both succeeded: the staged files
\* of both are gone, and the JSON request made no file.
C22_Witness ==
  \E r1, r2 \in Reqs :
    /\ reqs[r1].ep = "merge" /\ reqs[r1].status = 200 /\ Len(reqs[r1].temp) = 2
    /\ reqs[r2].ep \in JsonEndpoints /\ reqs[r2].status = 200 /\ Len(reqs[r2].temp) = 1
    /\ (Range(reqs[r1].temp) \cup Range(reqs[r2].temp)) \cap uploads = {}
    /\ reqs[r2].made = <<>>

====
